---- MODULE Spec2Model ----
(***************************************************************************)
(* A model of the Copilot Spaces bridge: the HTTP front end's conversation *)
(* store (api_bridge.py), the upstream client (copilot_client.py) and the  *)
(* response extractor (api_bridge.py / mcp_server.py).                     *)
(*                                                                         *)
(* Python values are tagged records: Null, Str(s), Lst(l), Obj(d).  A      *)
(* Python str is a sequence of tokens (TLA+ strings), so that              *)
(* concatenation is \o and splitting on "/" looks at the tokens.  A dict   *)
(* is a function from key names to values; the empty dict is << >>.        *)
(***************************************************************************)
EXTENDS Integers, Sequences, FiniteSets, TLC

\* ------------------------------------------------------------ bounds
\* concurrent HTTP request tasks on the event loop
MaxTasks == 2
\* HTTP requests started in one behaviour of Spec
MaxRequests == 3
\* HTTP requests started in one behaviour of SpecSeq (one client, in sequence)
MaxSeqRequests == 12
\* conversations created (caps _conv_counter)
MaxConvs == 2
\* upstream failures injected in one behaviour
MaxFaults == 1
\* concurrent calls of the upstream client
MaxCallers == 1
\* calls of the upstream client begun in one behaviour
MaxCalls == 2
\* failures injected into the MCP sessions of one behaviour
MaxCallFaults == 1

\* ------------------------------------------------------------ program constants
\* api_messages = history[-20:]
HistoryWindow == 20

\* ------------------------------------------------------------ Python values
Null == [null |-> TRUE]
Str(s) == [str |-> s]
Lst(l) == [list |-> l]
Obj(d) == [obj |-> d]

IsNull(v) == DOMAIN v = {"null"}
IsStr(v) == DOMAIN v = {"str"}
IsLst(v) == DOMAIN v = {"list"}
IsObj(v) == DOMAIN v = {"obj"}

\* bool(v)
Truthy(v) ==
    IF IsNull(v) THEN FALSE
    ELSE IF IsStr(v) THEN v.str # << >>
    ELSE IF IsLst(v) THEN v.list # << >>
    ELSE DOMAIN v.obj # {}

\* d.get(k, default) on a dict value
DictGet(v, k, default) == IF k \in DOMAIN v.obj THEN v.obj[k] ELSE default

Returned(v) == [kind |-> "return", value |-> v]
Raised(e) == [kind |-> "raise", exc |-> e]

\* the keys a JSON object of the model may hold, in the order json.dumps writes them
KeyOrder ==
    <<"choices", "message", "content", "foo", "spaces", "items",
      "owner_login", "owner", "login", "name", "space_ref">>

RECURSIVE JsonDumps(_)
RECURSIVE DumpItems(_, _)
RECURSIVE DumpMembers(_, _, _)
\* the elements of a JSON array from index i on, separated by ", "
DumpItems(l, i) ==
    IF i > Len(l) THEN << >>
    ELSE (IF i > 1 THEN <<", ">> ELSE << >>) \o JsonDumps(l[i]) \o DumpItems(l, i + 1)
\* the members of a JSON object from key i of KeyOrder on; first: none written yet
DumpMembers(d, i, first) ==
    IF i > Len(KeyOrder) THEN << >>
    ELSE IF KeyOrder[i] \notin DOMAIN d THEN DumpMembers(d, i + 1, first)
    ELSE (IF first THEN << >> ELSE <<", ">>)
         \o <<"\"", KeyOrder[i], "\"", ": ">> \o JsonDumps(d[KeyOrder[i]])
         \o DumpMembers(d, i + 1, FALSE)
\* json.dumps(v): the JSON text of v, as tokens
JsonDumps(v) ==
    IF IsNull(v) THEN <<"null">>
    ELSE IF IsStr(v) THEN <<"\"">> \o v.str \o <<"\"">>
    ELSE IF IsLst(v) THEN <<"[">> \o DumpItems(v.list, 1) \o <<"]">>
    ELSE <<"{">> \o DumpMembers(v.obj, 1, TRUE) \o <<"}">>

\* ------------------------------------------------------------ _extract_response
\* x.get("content", default) where x may be any value: only a dict has .get
GetContent(x, default) ==
    IF IsObj(x) THEN Returned(DictGet(x, "content", default))
    ELSE Raised("AttributeError")

\* response["choices"][0].get("message", {}).get("content", "")
ExtractFromChoices(choices) ==
    IF IsObj(choices) THEN Raised("KeyError")
    ELSE LET first == IF IsStr(choices) THEN Str(<<choices.str[1]>>) ELSE choices.list[1]
         IN  IF ~IsObj(first) THEN Raised("AttributeError")
             ELSE GetContent(DictGet(first, "message", Obj(<< >>)), Str(<< >>))

\* len(v) > 0, for a value that has a length
NonEmpty(v) ==
    IF IsStr(v) THEN Len(v.str) > 0
    ELSE IF IsLst(v) THEN Len(v.list) > 0
    ELSE Cardinality(DOMAIN v.obj) > 0

ExtractResponse(response) ==
    IF "choices" \in DOMAIN response.obj /\ IsNull(response.obj["choices"])
    THEN Raised("TypeError")
    ELSE IF "choices" \in DOMAIN response.obj /\ NonEmpty(response.obj["choices"])
    THEN ExtractFromChoices(response.obj["choices"])
    ELSE IF "message" \in DOMAIN response.obj
    THEN GetContent(response.obj["message"], Str(JsonDumps(response)))
    ELSE Returned(Str(JsonDumps(response)))

\* ------------------------------------------------------------ str helpers
\* the tokens that str.strip() removes
Whitespace == {" ", "\n", "\t"}

RECURSIVE LStrip(_)
LStrip(s) == IF s # << >> /\ Head(s) \in Whitespace THEN LStrip(Tail(s)) ELSE s
RECURSIVE RStrip(_)
RStrip(s) ==
    IF s # << >> /\ s[Len(s)] \in Whitespace THEN RStrip(SubSeq(s, 1, Len(s) - 1)) ELSE s
\* s.strip()
Strip(s) == RStrip(LStrip(s))

\* sub in s, for a one-token sub
Contains(s, sub) == \E i \in 1..Len(s) : s[i] = sub
\* s.find(sub) + 1 when sub is in s
FirstIndex(s, sub) == CHOOSE i \in 1..Len(s) : s[i] = sub /\ \A j \in 1..(i - 1) : s[j] # sub
\* s.split(sub, 1)
Split1(s, sub) ==
    IF Contains(s, sub)
    THEN <<SubSeq(s, 1, FirstIndex(s, sub) - 1), SubSeq(s, FirstIndex(s, sub) + 1, Len(s))>>
    ELSE <<s>>

RECURSIVE Join(_, _)
\* sep.join(parts)
Join(sep, parts) ==
    IF parts = << >> THEN << >>
    ELSE IF Len(parts) = 1 THEN parts[1]
    ELSE parts[1] \o sep \o Join(sep, Tail(parts))

\* ------------------------------------------------------------ get_copilot_space
\* owner, name = space_ref.split("/", 1), or owner = "" and name = space_ref
SplitRef(space_ref) ==
    IF Contains(space_ref, "/")
    THEN [owner |-> Split1(space_ref, "/")[1], name |-> Split1(space_ref, "/")[2]]
    ELSE [owner |-> << >>, name |-> space_ref]

\* getattr(resource, "text", "") or ""
ResourceText(resource) ==
    IF "text" \in DOMAIN resource.obj /\ Truthy(resource.obj["text"])
    THEN resource.obj["text"].str ELSE << >>
\* str(getattr(resource, "uri", ""))
ResourceUri(resource) ==
    IF "uri" \in DOMAIN resource.obj THEN resource.obj["uri"].str ELSE << >>

\* one turn of the loop over result.content: acc is [files, space_name]
WalkItem(acc, item, name) ==
    LET resource == DictGet(item, "resource", Null) IN
    IF IsNull(resource) THEN acc
    ELSE LET uri == ResourceUri(resource)
             text == ResourceText(resource)
         IN  IF Contains(uri, "/contents/name")
             THEN [acc EXCEPT !.space_name = IF Strip(text) # << >> THEN Strip(text) ELSE name]
             ELSE IF Contains(uri, "/files/")
             THEN IF Strip(text) # << >>
                  THEN [acc EXCEPT !.files = Append(@,
                           Obj([path |-> Str(Split1(uri, "/files/")[2]), content |-> Str(text)]))]
                  ELSE acc
             ELSE acc

RECURSIVE WalkItems(_, _, _)
\* the loop over (result.content or [])
WalkItems(acc, items, name) ==
    IF items = << >> THEN acc
    ELSE WalkItems(WalkItem(acc, Head(items), name), Tail(items), name)

\* f"### File: {f['path']}\n\n{f['content']}" for every file
ContextParts(files) ==
    [i \in 1..Len(files) |->
        <<"### File: ">> \o files[i].obj["path"].str \o <<"\n\n">> \o files[i].obj["content"].str]

\* the space_result dict assembled from the tool call's items
AssembleSpace(space_ref, items) ==
    LET ref == SplitRef(space_ref)
        walked == WalkItems([files |-> << >>, space_name |-> ref.name], items, ref.name)
    IN  Obj([name |-> Str(walked.space_name),
             owner |-> Str(ref.owner),
             space_ref |-> Str(space_ref),
             files |-> Lst(walked.files),
             context |-> Str(Join(<<"\n\n---\n\n">>, ContextParts(walked.files)))])

\* a slip: the record counts as captured only when it holds a file
GetSpaceTruthy_HasFiles(result) ==
    "files" \in DOMAIN result.obj /\ Truthy(result.obj["files"])

\* the except clause of get_copilot_space: if space_result
GetSpaceTruthy(result) == Truthy(result)
GetSpaceHandler(result, exc) ==
    IF GetSpaceTruthy(result) THEN Returned(result) ELSE Raised(exc)

\* the places where a call to the upstream MCP server can fail
EarlyFailures == {"open_transport", "open_session", "initialize", "call_tool"}
LateFailures == {"close_session", "close_transport"}
FailPoints == {"none"} \cup EarlyFailures \cup LateFailures

\* what one whole call get_copilot_space(space_ref) ends with, when the upstream
\* answers with items and the session fails at failAt
GetSpaceOutcome(token, space_ref, items, failAt) ==
    IF ~token THEN GetSpaceHandler(Obj(<< >>), "ValueError")
    ELSE IF failAt \in EarlyFailures THEN GetSpaceHandler(Obj(<< >>), failAt)
    ELSE IF failAt \in LateFailures THEN GetSpaceHandler(AssembleSpace(space_ref, items), failAt)
    ELSE Returned(AssembleSpace(space_ref, items))

\* ------------------------------------------------------------ the upstream MCP server
\* content items of a tool result
TextItem(text) == Obj([type |-> Str(<<"text">>), text |-> Str(text)])
ResourceItem(uri, text) ==
    Obj([type |-> Str(<<"resource">>), resource |-> Obj([uri |-> Str(uri), text |-> Str(text)])])
FileItem(path, text) == ResourceItem(<<"space://acme/1", "/files/">> \o path, text)
NameItem(text) == ResourceItem(<<"space://acme/1", "/contents/name">>, text)
ToolResult(items) == Obj([content |-> Lst(items)])

SpaceRecord(d) == Obj(d)
\* the decoded values list_copilot_spaces may be answered with
ListPayloads ==
    <<Lst(<< >>),
      Lst(<<SpaceRecord([owner_login |-> Str(<<"a">>), name |-> Str(<<"b">>)])>>),
      Lst(<<SpaceRecord([owner |-> Obj([login |-> Str(<<"c">>)]), name |-> Str(<<"d">>)])>>),
      Lst(<<SpaceRecord([name |-> Str(<<"n">>)])>>),
      Lst(<<SpaceRecord([owner_login |-> Str(<<"a">>), owner |-> Str(<<"z">>),
                         name |-> Str(<<"b">>)]),
            SpaceRecord([owner |-> Str(<< >>), name |-> Str(<<"e">>)])>>),
      Lst(<<SpaceRecord([owner |-> Obj(<< >>), name |-> Str(<<"f">>)]), Str(<<"x">>)>>),
      Obj([spaces |-> Lst(<<SpaceRecord([owner |-> Str(<<"g">>), name |-> Str(<<"h">>)])>>)]),
      Obj([items |-> Lst(<<SpaceRecord([owner_login |-> Str(<<"i">>)])>>)]),
      Obj([spaces |-> Null]),
      Obj(<< >>),
      Str(<<"x">>)>>
JsonValues == {ListPayloads[i] : i \in 1..Len(ListPayloads)}

\* json.loads(text): the value whose JSON text it is, or JSONDecodeError
JsonLoads(text) ==
    IF \E v \in JsonValues : JsonDumps(v) = text
    THEN Returned(CHOOSE v \in JsonValues : JsonDumps(v) = text)
    ELSE Raised("JSONDecodeError")

\* the tool results list_copilot_spaces may be answered with
ListResults ==
    [i \in 1..Len(ListPayloads) |->
        ToolResult(<<ResourceItem(<<"spaces://list">>, JsonDumps(ListPayloads[i]))>>)]
    \o <<ToolResult(<< >>),
         ToolResult(<<TextItem(JsonDumps(ListPayloads[2]))>>),
         ToolResult(<<ResourceItem(<<"spaces://list">>, <<"Bad Gateway">>)>>),
         ToolResult(<<Obj([type |-> Str(<<"resource">>), resource |-> Null])>>)>>

\* the content get_copilot_space may be answered with
ItemLists ==
    <<Lst(<< >>),
      Lst(<<NameItem(<<"My Space">>), FileItem(<<"a.md">>, <<"hello">>),
            FileItem(<<"empty.md">>, <<" ", " ">>)>>),
      Lst(<<FileItem(<<"a.md">>, <<"hello">>), FileItem(<<"b.md">>, <<"world", "\n">>)>>),
      Lst(<<NameItem(<<" ">>), TextItem(<<"note">>)>>),
      Lst(<<ResourceItem(<<"space://acme/1", "/files/", "docs", "/contents/name", ".md">>,
                         <<"howto">>),
            ResourceItem(<<"space://acme/1", "/meta">>, <<"m">>)>>),
      Null>>

\* what the upstream holds during one behaviour
Upstreams ==
    {[listing |-> ListResults[i], items |-> ItemLists[((i - 1) % Len(ItemLists)) + 1]] :
        i \in 1..Len(ListResults)}

\* ------------------------------------------------------------ _parse_mcp_result
\* json.loads(text), or text itself when it is not JSON
LoadsOrText(text) ==
    IF JsonLoads(text.str).kind = "return" THEN JsonLoads(text.str).value ELSE text

ParseMcpResult(result) ==
    IF ~Truthy(result) \/ ~Truthy(DictGet(result, "content", Null)) THEN Null
    ELSE LET content_item == result.obj["content"].list[1]
             content_type == DictGet(content_item, "type", Null)
         IN  IF content_type = Str(<<"resource">>) \/ "resource" \in DOMAIN content_item.obj
             THEN LET resource == DictGet(content_item, "resource", Null) IN
                  IF IsNull(resource) THEN Null
                  ELSE IF IsNull(DictGet(resource, "text", Null)) THEN Null
                  ELSE LoadsOrText(resource.obj["text"])
             ELSE IF IsNull(DictGet(content_item, "text", Null)) THEN Null
             ELSE LoadsOrText(content_item.obj["text"])

\* ------------------------------------------------------------ list_copilot_spaces
\* lines 108-113: what spaces_result is after the tool result was decoded
CaptureSpaces(data) ==
    IF IsLst(data) THEN data
    ELSE IF IsObj(data)
    THEN DictGet(data, "spaces", DictGet(data, "items", Lst(<< >>)))
    ELSE Lst(<< >>)

\* a or b
Or(a, b) == IF Truthy(a) THEN a ELSE b

\* str(v) inside an f-string
Format(v) == IF IsStr(v) THEN v.str ELSE IF IsNull(v) THEN <<"None">> ELSE JsonDumps(v)

\* a slip: the slash is written even when no owner was derived
SpaceRefOf_AlwaysSlash(owner, name) == Str(Format(owner) \o <<"/">> \o Format(name))

\* f"{owner}/{name}" if owner else name
SpaceRefOf(owner, name) ==
    IF Truthy(owner) THEN Str(Format(owner) \o <<"/">> \o Format(name)) ELSE name

\* lines 117-123, for one element of spaces_result
NormaliseSpace(space) ==
    IF ~IsObj(space) THEN space
    ELSE LET owner0 == Or(DictGet(space, "owner_login", Null),
                          DictGet(space, "owner", Str(<< >>)))
             owner == IF IsObj(owner0) THEN DictGet(owner0, "login", Str(<< >>)) ELSE owner0
             name == DictGet(space, "name", Str(<< >>))
         IN  Obj(("space_ref" :> SpaceRefOf(owner, name)) @@ space.obj)

\* lines 106-123: the result list and the exception the loop raises, if any
ProcessListing(result) ==
    LET captured == CaptureSpaces(ParseMcpResult(result)) IN
    IF IsNull(captured) THEN [result |-> captured, exc |-> "TypeError"]
    ELSE IF IsLst(captured)
    THEN [result |-> Lst([i \in 1..Len(captured.list) |-> NormaliseSpace(captured.list[i])]),
          exc |-> "none"]
    ELSE [result |-> captured, exc |-> "none"]

\* the except clause of list_copilot_spaces: if spaces_result
ListTruthy(result) == Truthy(result)
ListHandler(result, exc) ==
    IF ListTruthy(result) THEN Returned(result) ELSE Raised(exc)


\* ------------------------------------------------------------ state
VARIABLES
    \* api_bridge.py
    conversations,  \* _conversations: conversation id -> the list object it names
    heap,           \* the list objects (histories), by address
    conv_counter,   \* _conv_counter
    tasks,          \* the api_query_space calls on the event loop, with their locals
    started,        \* requests begun so far
    asked,          \* per list object: chat calls made with it (history variable)
    errored,        \* per list object: queries that ended in HTTP 500 after appending to it
    \* copilot_client.py
    calls,          \* the list_copilot_spaces / get_copilot_space calls, with their locals
    scopes,         \* per call begun: its transport session, its MCP session, their users
    called,         \* calls begun so far
    \* _extract_response
    exIn,           \* the decoded response handed to the extractor
    exOut,          \* what the extractor did with it
    \* environment
    token,          \* whether GITHUB_TOKEN is set
    upstream,       \* what the upstream MCP server answers
    faults          \* upstream failures so far

http_vars == <<conversations, heap, conv_counter, tasks, started, asked, errored>>
client_vars == <<calls, scopes, called>>
extract_vars == <<exIn, exOut>>
env_vars == <<token, faults>>
vars == <<http_vars, client_vars, extract_vars, upstream, env_vars>>

\* ------------------------------------------------------------ api_bridge.py
Tasks == 1..MaxTasks

\* f"conv-{_conv_counter}"
ConvId(n) == <<"conv-", ToString(n)>>

\* the path parameters and the request bodies the clients send
Owners == {<<"acme">>}
Names == {<<"docs">>}
Prompts == {<<"What is X?">>}
\* request.conversationId: absent, empty, or some id (assigned already or not)
ConversationIds == {Null, Str(<< >>)} \cup {Str(ConvId(n)) : n \in 1..MaxConvs}

Turn(role, content) == [role |-> role, content |-> content]

\* the system turn's content
SystemContent(owner, name, file_context) ==
    <<"You are GitHub Copilot operating in the '">> \o name \o <<"' space (owner: ">>
    \o owner \o <<"). ",
       "Answer questions using ONLY the knowledge files below. ",
       "If the answer is not in the files, say so honestly.\n\n">>
    \o (IF file_context # << >>
        THEN <<"## Space Knowledge Files\n\n">> \o file_context
        ELSE <<"(No knowledge files are attached to this space yet.)">>)

\* a slip: history[:n], the first n turns instead of the last
LastTurns_FirstN(history, n) ==
    SubSeq(history, 1, IF Len(history) < n THEN Len(history) ELSE n)

\* history[-n:]
LastTurns(history, n) ==
    SubSeq(history, (IF Len(history) - n < 0 THEN 0 ELSE Len(history) - n) + 1, Len(history))

IdleTask ==
    [pc |-> "idle", owner |-> << >>, name |-> << >>, prompt |-> << >>,
     conv_id |-> << >>, history |-> 0, api_messages |-> << >>, reply |-> Null]

\* what the upstream MCP server may hold for a space: no file, or one file
HttpItemLists == {<< >>, <<FileItem(<<"overview.md">>, <<"X is Y.">>)>>}

\* the file_context of lines 120-124, for every way the call can end
FileContexts(space_ref) ==
    {LET out == GetSpaceOutcome(token, space_ref, items, failAt)
     IN  IF out.kind = "return" THEN DictGet(out.value, "context", Str(<< >>)).str ELSE << >>
     : items \in HttpItemLists, failAt \in {"none", "call_tool", "close_transport"}}

\* the chat endpoint's decoded answers the HTTP model draws from
GoodResponse ==
    Obj([choices |-> Lst(<<Obj([message |-> Obj([content |-> Str(<<"hi">>)])])>>)])
NullMessageResponse == Obj([choices |-> Lst(<<Obj([message |-> Null])>>)])

\* lines 147 and 161-163: the chat call suspends when the credential is set; without
\* it _get_token raises before any await and the handler ends in HTTP 500 at once
CallChat(t, task, e) ==
    IF token
    THEN /\ tasks' = [tasks EXCEPT ![t] = [task EXCEPT !.pc = "chat"]]
         /\ errored' = e
    ELSE /\ tasks' = [tasks EXCEPT ![t] = [IdleTask EXCEPT !.pc = "error"]]
         /\ errored' = [e EXCEPT ![task.history] = @ + 1]

\* a slip: the system turn is added again with every query
AppendUserAndCall_Regrounded(t, task, h, e) ==
    /\ heap' = [h EXCEPT ![task.history] =
                    Append(Append(@, Turn("system", Str(<< >>))), Turn("user", Str(task.prompt)))]
    /\ asked' = [i \in 1..Len(h) |->
                    IF i > Len(asked) THEN 1 ELSE asked[i] + (IF i = task.history THEN 1 ELSE 0)]
    /\ CallChat(t, [task EXCEPT !.api_messages = LastTurns(heap'[task.history], HistoryWindow)], e)

\* lines 141-147: append the user turn, cut the window, call the chat endpoint
AppendUserAndCall(t, task, h, e) ==
    /\ heap' = [h EXCEPT ![task.history] = Append(@, Turn("user", Str(task.prompt)))]
    /\ asked' = [i \in 1..Len(h) |->
                    IF i > Len(asked) THEN 1 ELSE asked[i] + (IF i = task.history THEN 1 ELSE 0)]
    /\ CallChat(t, [task EXCEPT !.api_messages = LastTurns(heap'[task.history], HistoryWindow)], e)

\* lines 126-147: build the system turn, store the new list under the id, go on to the turn
StoreNew(t, task, file_context) ==
    LET system == Turn("system", Str(SystemContent(task.owner, task.name, file_context)))
        addr == Len(heap) + 1
    IN  /\ conversations' = (task.conv_id :> addr) @@ conversations
        /\ AppendUserAndCall(t, [task EXCEPT !.history = addr],
                             Append(heap, <<system>>), Append(errored, 0))

\* a slip: the id is derived from the size of the store, not from a counter of its own
NewConversationId_FromStoreSize ==
    [counter |-> conv_counter + 1, id |-> ConvId(Cardinality(DOMAIN conversations) + 1)]

\* _new_conversation_id()
NewConversationId == [counter |-> conv_counter + 1, id |-> ConvId(conv_counter + 1)]

\* a hardening the code does not have: one query at a time per conversation
QueryKnown_Serialized(t, task, cid) ==
    /\ \A u \in Tasks : tasks[u].pc = "chat" => tasks[u].conv_id # cid
    /\ AppendUserAndCall(t, [task EXCEPT !.conv_id = cid, !.history = conversations[cid]],
                         heap, errored)
    /\ UNCHANGED <<conversations, conv_counter>>

\* lines 115-116 and 141-147: the id is in the store; its list is taken and appended to
QueryKnown(t, task, cid) ==
    /\ AppendUserAndCall(t, [task EXCEPT !.conv_id = cid, !.history = conversations[cid]],
                         heap, errored)
    /\ UNCHANGED <<conversations, conv_counter>>

\* lines 117-124: a new id; get_copilot_space suspends when the credential is set, and
\* without it raises before any await, so that the handler runs on with no file context
QueryNew(t, task) ==
    /\ conv_counter < MaxConvs
    /\ conv_counter' = NewConversationId.counter
    /\ IF token
       THEN /\ tasks' = [tasks EXCEPT ![t] =
                            [task EXCEPT !.pc = "fetch", !.conv_id = NewConversationId.id]]
            /\ UNCHANGED <<conversations, heap, asked, errored>>
       ELSE StoreNew(t, [task EXCEPT !.conv_id = NewConversationId.id], << >>)

\* a request arrives: lines 111-118, and on to the first suspension
QueryOn(t, limit, owner, name, prompt, cid) ==
    LET task == [IdleTask EXCEPT !.owner = owner, !.name = name, !.prompt = prompt] IN
    /\ tasks[t].pc \in {"idle", "done", "error"}
    /\ started < limit
    /\ started' = started + 1
    /\ IF Truthy(cid) /\ cid.str \in DOMAIN conversations
       THEN QueryKnown(t, task, cid.str)
       ELSE QueryNew(t, task)
    /\ UNCHANGED <<env_vars, client_vars, extract_vars, upstream>>

StartQuery(t, limit) ==
    \E owner \in Owners, name \in Names, prompt \in Prompts, cid \in ConversationIds :
        QueryOn(t, limit, owner, name, prompt, cid)

\* get_copilot_space has returned or raised: lines 122-147
FetchDone(t) ==
    /\ tasks[t].pc = "fetch"
    /\ \E file_context \in FileContexts(tasks[t].owner \o <<"/">> \o tasks[t].name) :
        StoreNew(t, tasks[t], file_context)
    /\ UNCHANGED <<conv_counter, started, env_vars, client_vars, extract_vars, upstream>>

\* a slip: the reply is returned but not stored
StoreReply_Dropped(task, content) == UNCHANGED heap

\* lines 152-153: history.append({"role": "assistant", "content": assistant_content})
StoreReply(task, content) ==
    heap' = [heap EXCEPT ![task.history] = Append(@, Turn("assistant", content))]

\* query_copilot_space has returned: lines 150-159, or the except clause
ChatReturn(t) ==
    /\ tasks[t].pc = "chat"
    /\ \E response \in {GoodResponse, NullMessageResponse} :
        LET task == tasks[t]
            out == ExtractResponse(response)
        IN  IF out.kind = "return"
            THEN /\ StoreReply(task, out.value)
                 /\ tasks' = [tasks EXCEPT ![t] =
                        [IdleTask EXCEPT !.pc = "done",
                            !.reply = Obj([conversationId |-> Str(task.conv_id),
                                           response |-> out.value,
                                           spaceId |-> Str(task.owner \o <<"/">> \o task.name)])]]
                 /\ UNCHANGED <<asked, errored, faults>>
            ELSE /\ faults < MaxFaults
                 /\ faults' = faults + 1
                 /\ tasks' = [tasks EXCEPT ![t] = [IdleTask EXCEPT !.pc = "error"]]
                 /\ errored' = [errored EXCEPT ![task.history] = @ + 1]
                 /\ UNCHANGED <<heap, asked>>
    /\ UNCHANGED <<conversations, conv_counter, started, token>>
    /\ UNCHANGED <<client_vars, extract_vars, upstream>>

\* a slip: the failed query's user turn is taken back
ChatRaise_RollsBack(t) ==
    /\ tasks[t].pc = "chat"
    /\ faults < MaxFaults
    /\ faults' = faults + 1
    /\ tasks' = [tasks EXCEPT ![t] = [IdleTask EXCEPT !.pc = "error"]]
    /\ errored' = [errored EXCEPT ![tasks[t].history] = @ + 1]
    /\ heap' = [heap EXCEPT ![tasks[t].history] = SubSeq(@, 1, Len(@) - 1)]
    /\ UNCHANGED <<conversations, conv_counter, started, asked, token>>
    /\ UNCHANGED <<client_vars, extract_vars, upstream>>

\* query_copilot_space has raised after its await (a non-success status): lines 161-163
ChatRaise(t) ==
    /\ tasks[t].pc = "chat"
    /\ faults < MaxFaults
    /\ faults' = faults + 1
    /\ tasks' = [tasks EXCEPT ![t] = [IdleTask EXCEPT !.pc = "error"]]
    /\ errored' = [errored EXCEPT ![tasks[t].history] = @ + 1]
    /\ UNCHANGED <<conversations, heap, conv_counter, started, asked, token>>
    /\ UNCHANGED <<client_vars, extract_vars, upstream>>

Callers == 1..MaxCallers

IdleCall ==
    [pc |-> "idle", op |-> "none", space_ref |-> << >>, no |-> 0, transport |-> 0,
     session |-> 0, result |-> Null, exc |-> "none", received |-> FALSE]

\* the store, the counter and the event loop when the process has started
InitHttp ==
    /\ conversations = << >>
    /\ heap = << >>
    /\ conv_counter = 0
    /\ tasks = [t \in Tasks |-> IdleTask]
    /\ started = 0
    /\ asked = << >>
    /\ errored = << >>

InitClient ==
    /\ calls = [c \in Callers |-> IdleCall]
    /\ scopes = << >>
    /\ called = 0

Init ==
    /\ InitHttp
    /\ InitClient
    /\ exIn = Null
    /\ exOut = Null
    /\ upstream = Null
    /\ token \in BOOLEAN
    /\ faults = 0

Next ==
    \E t \in Tasks :
        \/ StartQuery(t, MaxRequests)
        \/ FetchDone(t)
        \/ ChatReturn(t)
        \/ ChatRaise(t)

\* concurrent requests on the event loop
Spec == Init /\ [][Next]_vars

NextSeq ==
    \/ StartQuery(1, MaxSeqRequests)
    \/ FetchDone(1)
    \/ ChatReturn(1)
    \/ ChatRaise(1)

\* one client sending one request at a time
SpecSeq == Init /\ [][NextSeq]_vars

\* ------------------------------------------------------------ copilot_client.py: one call
\* the references get_copilot_space is called with
SpaceRefs == {<<"acme", "/", "docs">>, <<"docs">>, <<"acme", "/", "docs", "/", "v2">>}

\* result.content or []
ContentOrEmpty(content) == IF Truthy(content) THEN content.list ELSE << >>

\* the except clause of the call's function
Handler(call) ==
    IF call.op = "list" THEN ListHandler(call.result, call.exc)
    ELSE GetSpaceHandler(call.result, call.exc)

\* the call leaves its try statement: lines 125-137 and 214-221
Finish(call) ==
    [call EXCEPT !.pc = IF call.exc = "none" \/ Handler(call).kind = "return"
                        THEN "returned" ELSE "raised",
                 !.transport = 0, !.session = 0]

\* the transport session and the MCP session of a call that has opened neither yet
NoScopes == [transport |-> "unopened", session |-> "unopened", users |-> {}]
\* call number no works with the streams or the session that call number i opened
Use(i, no) == [scopes EXCEPT ![i].users = @ \cup {no}]

\* a failure may be injected
MayFail(ok) == ok \/ faults < MaxCallFaults
Count(ok) == faults' = IF ok THEN faults ELSE faults + 1

\* the call begins: lines 96-101 and 153-164, _mcp_headers() included
BeginCall(c) ==
    /\ calls[c].pc \in {"idle", "returned", "raised"}
    /\ called < MaxCalls
    /\ called' = called + 1
    /\ \E op \in {"list", "get"} :
        \E ref \in IF op = "list" THEN {<< >>} ELSE SpaceRefs :
            LET call == [IdleCall EXCEPT !.op = op, !.space_ref = ref, !.no = called + 1,
                            !.result = IF op = "list" THEN Lst(<< >>) ELSE Obj(<< >>)]
            IN  calls' = [calls EXCEPT ![c] =
                    IF token THEN [call EXCEPT !.pc = "opening"]
                    ELSE Finish([call EXCEPT !.exc = "ValueError"])]
    /\ scopes' = Append(scopes, NoScopes)
    /\ UNCHANGED <<http_vars, extract_vars, upstream, env_vars>>

\* async with streamablehttp_client(...) is entered: lines 99-102, 162-165
OpenTransport(c) ==
    /\ calls[c].pc = "opening"
    /\ \E ok \in BOOLEAN :
        /\ MayFail(ok)
        /\ Count(ok)
        /\ IF ok
           THEN /\ scopes' = [scopes EXCEPT ![calls[c].no].transport = "open"]
                /\ calls' = [calls EXCEPT ![c].pc = "transport_open",
                                          ![c].transport = calls[c].no]
           ELSE /\ calls' = [calls EXCEPT ![c] = Finish([@ EXCEPT !.exc = "open_transport"])]
                /\ UNCHANGED scopes
    /\ UNCHANGED <<called, http_vars, extract_vars, upstream, token>>

\* async with ClientSession(read, write) is entered: lines 103, 166
OpenSession(c) ==
    /\ calls[c].pc = "transport_open"
    /\ \E ok \in BOOLEAN :
        /\ MayFail(ok)
        /\ Count(ok)
        /\ IF ok
           THEN /\ scopes' = [Use(calls[c].transport, calls[c].no) EXCEPT
                                    ![calls[c].no].session = "open"]
                /\ calls' = [calls EXCEPT ![c].pc = "session_open",
                                          ![c].session = calls[c].no]
           ELSE /\ calls' = [calls EXCEPT ![c].pc = "closing_transport",
                                          ![c].exc = "open_session"]
                /\ UNCHANGED scopes
    /\ UNCHANGED <<called, http_vars, extract_vars, upstream, token>>

\* await session.initialize(): lines 104, 167
Initialize(c) ==
    /\ calls[c].pc = "session_open"
    /\ scopes' = Use(calls[c].session, calls[c].no)
    /\ \E ok \in BOOLEAN :
        /\ MayFail(ok)
        /\ Count(ok)
        /\ calls' = IF ok THEN [calls EXCEPT ![c].pc = "initialized"]
                    ELSE [calls EXCEPT ![c].pc = "closing_session", ![c].exc = "initialize"]
    /\ UNCHANGED <<called, http_vars, extract_vars, upstream, token>>

\* await session.call_tool(...) and the code up to the end of the with body:
\* lines 105-123, 168-212
CallTool(c) ==
    /\ calls[c].pc = "initialized"
    /\ scopes' = Use(calls[c].session, calls[c].no)
    /\ \E ok \in BOOLEAN :
        /\ MayFail(ok)
        /\ Count(ok)
        /\ LET call == calls[c]
               listed == ProcessListing(upstream.listing)
           IN  calls' = [calls EXCEPT ![c] =
                IF ~ok THEN [call EXCEPT !.pc = "closing_session", !.exc = "call_tool"]
                ELSE IF call.op = "list"
                THEN [call EXCEPT !.pc = "closing_session", !.received = TRUE,
                                  !.result = listed.result, !.exc = listed.exc]
                ELSE [call EXCEPT !.pc = "closing_session", !.received = TRUE,
                                  !.result = AssembleSpace(call.space_ref,
                                                 ContentOrEmpty(upstream.items))]]
    /\ UNCHANGED <<called, http_vars, extract_vars, upstream, token>>

\* a slip: the session is closed by hand, on the success path only
CloseSession_OnlyOnSuccess(c) ==
    /\ calls[c].pc = "closing_session"
    /\ scopes' = IF calls[c].exc = "none"
                 THEN [scopes EXCEPT ![calls[c].session].session = "closed"] ELSE scopes
    /\ calls' = [calls EXCEPT ![c].pc = "closing_transport"]
    /\ UNCHANGED <<called, http_vars, extract_vars, upstream, env_vars>>

\* the ClientSession block is left, normally or by an exception: lines 103, 166
CloseSession(c) ==
    /\ calls[c].pc = "closing_session"
    /\ scopes' = [scopes EXCEPT ![calls[c].session].session = "closed"]
    /\ \E ok \in BOOLEAN :
        /\ MayFail(ok)
        /\ Count(ok)
        /\ calls' = IF ok THEN [calls EXCEPT ![c].pc = "closing_transport"]
                    ELSE [calls EXCEPT ![c].pc = "closing_transport",
                                       ![c].exc = "close_session"]
    /\ UNCHANGED <<called, http_vars, extract_vars, upstream, token>>

\* the streamablehttp_client block is left, and the call ends: lines 99-102 and
\* 125-137, 162-165 and 214-221
CloseTransport(c) ==
    /\ calls[c].pc = "closing_transport"
    /\ scopes' = [scopes EXCEPT ![calls[c].transport].transport = "closed"]
    /\ \E ok \in BOOLEAN :
        /\ MayFail(ok)
        /\ Count(ok)
        /\ calls' = [calls EXCEPT ![c] =
                        Finish(IF ok THEN @ ELSE [@ EXCEPT !.exc = "close_transport"])]
    /\ UNCHANGED <<called, http_vars, extract_vars, upstream, token>>

InitCalls ==
    /\ InitHttp
    /\ InitClient
    /\ exIn = Null
    /\ exOut = Null
    /\ upstream \in Upstreams
    /\ token \in BOOLEAN
    /\ faults = 0

NextCalls ==
    \E c \in Callers :
        \/ BeginCall(c)
        \/ OpenTransport(c)
        \/ OpenSession(c)
        \/ Initialize(c)
        \/ CallTool(c)
        \/ CloseSession(c)
        \/ CloseTransport(c)

\* the calls of the upstream client
SpecCalls == InitCalls /\ [][NextCalls]_vars

\* ------------------------------------------------------------ the extractor alone
Present(vs) == {[key |-> TRUE, value |-> v] : v \in vs} \cup {[key |-> FALSE, value |-> Null]}

\* elements of a choices list
ChoiceValues ==
    {Null, Str(<<"x">>), Obj(<< >>), Obj([message |-> Null]), Obj([message |-> Obj(<< >>)]),
     Obj([message |-> Obj([content |-> Null])]),
     Obj([message |-> Obj([content |-> Str(<<"hi">>)])])}
ChoicesValues ==
    {Null, Lst(<< >>), Str(<<"x">>), Obj(<< >>)} \cup {Lst(<<c>>) : c \in ChoiceValues}
MessageValues ==
    {Null, Str(<<"yo">>), Obj(<< >>), Obj([content |-> Null]), Obj([content |-> Str(<<"yo">>)])}

\* a dict with the given optional members
Dict(choices, message, foo) ==
    [k \in (IF choices.key THEN {"choices"} ELSE {}) \cup
           (IF message.key THEN {"message"} ELSE {}) \cup
           (IF foo.key THEN {"foo"} ELSE {}) |->
        IF k = "choices" THEN choices.value
        ELSE IF k = "message" THEN message.value ELSE foo.value]

\* the decoded responses the extractor is tried on: JSON objects
ExtractInputs ==
    {Obj(Dict(c, m, f)) :
        c \in Present(ChoicesValues), m \in Present(MessageValues), f \in Present({Str(<<"bar">>)})}

InitExtract ==
    /\ InitHttp
    /\ InitClient
    /\ exIn \in ExtractInputs
    /\ exOut = Null
    /\ upstream = Null
    /\ token = TRUE
    /\ faults = 0

\* assistant_content = _extract_response(response)
Extract ==
    /\ exOut = Null
    /\ exOut' = ExtractResponse(exIn)
    /\ UNCHANGED <<exIn, http_vars, client_vars, upstream, env_vars>>

NextExtract == Extract

SpecExtract == InitExtract /\ [][NextExtract]_vars

\* ------------------------------------------------------------ helpers of the claims
\* the history stored under a conversation id
History(id) == heap[conversations[id]]
\* the turns of h with the given role
CountRole(h, role) == Cardinality({i \in 1..Len(h) : h[i].role = role})
IsPrefix(a, b) == Len(a) <= Len(b) /\ SubSeq(b, 1, Len(a)) = a
\* the ids handed out so far
Assigned == {ConvId(n) : n \in 1..conv_counter}
\* a task whose local conv_id and history are set
InChat(t) == tasks[t].pc = "chat"

\* ------------------------------------------------------------ C1
\* C1: every stored conversation holds exactly one system turn, its first; a step
\* never rewrites a stored turn: it only appends user and assistant turns, so the
\* system turn's content stays what it was at creation.
C1_SystemTurnFirstAndFixed ==
    /\ [](\A id \in DOMAIN conversations :
            /\ Len(History(id)) >= 1
            /\ History(id)[1].role = "system"
            /\ \A i \in 2..Len(History(id)) : History(id)[i].role \in {"user", "assistant"})
    /\ [][\A id \in DOMAIN conversations :
            /\ id \in DOMAIN conversations'
            /\ IsPrefix(History(id), heap'[conversations'[id]])
            /\ heap'[conversations'[id]][1] = History(id)[1]]_vars

\* a conversation that served two queries, the second one reusing it
C1_Witness ==
    \E id \in DOMAIN conversations :
        /\ Len(History(id)) >= 4
        /\ History(id)[1].role = "system"
        /\ CountRole(History(id), "user") >= 2

\* ------------------------------------------------------------ C2
\* C2: with one client sending its queries in sequence and no query on the
\* conversation failed, the history before the k-th chat call on a conversation is
\* the system turn, k-1 (user, assistant) pairs and the k-th user turn; the first
\* call passes exactly these two messages; the id a query returns names the
\* conversation its reply was stored in, so the next query with it reuses it.
C2_HistoryBeforeChat ==
    /\ InChat(1) /\ errored[tasks[1].history] = 0 =>
        LET h == heap[tasks[1].history]
            k == asked[tasks[1].history]
        IN  /\ Len(h) = 2 * k
            /\ h[1].role = "system"
            /\ \A i \in 2..Len(h) : h[i].role = IF i % 2 = 0 THEN "user" ELSE "assistant"
            /\ k = 1 => tasks[1].api_messages = h /\ Len(h) = 2
            /\ tasks[1].conv_id \in DOMAIN conversations
            /\ conversations[tasks[1].conv_id] = tasks[1].history
    /\ tasks[1].pc = "done" =>
        LET id == tasks[1].reply.obj["conversationId"].str IN
        /\ id \in DOMAIN conversations
        /\ errored[conversations[id]] = 0 =>
            /\ Len(History(id)) = 2 * asked[conversations[id]] + 1
            /\ History(id)[Len(History(id))] =
                   Turn("assistant", tasks[1].reply.obj["response"])

\* the second chat call on the only conversation: (system, user, assistant, user)
C2_Witness ==
    /\ InChat(1)
    /\ conv_counter = 1
    /\ asked[tasks[1].history] = 2
    /\ errored[tasks[1].history] = 0
    /\ [i \in 1..4 |-> heap[tasks[1].history][i].role] = <<"system", "user", "assistant", "user">>

\* ------------------------------------------------------------ C3
\* C3: when a query suspends in the chat call, the messages it passes are the last
\* min(20, n) turns of the stored history of length n, in stored order, the last of
\* them the user turn just appended; never more than 20.
C3_WindowIsLastTwenty ==
    [][\A t \in Tasks :
        tasks[t].pc # "chat" /\ tasks'[t].pc = "chat" =>
            LET h == heap'[tasks'[t].history]
                m == tasks'[t].api_messages
                n == Len(h)
            IN  /\ Len(m) = IF n < HistoryWindow THEN n ELSE HistoryWindow
                /\ Len(m) <= 20
                /\ \A i \in 1..Len(m) : m[i] = h[n - Len(m) + i]
                /\ m[Len(m)] = Turn("user", Str(tasks'[t].prompt))
                /\ m[Len(m)] = h[n]]_vars

\* a chat call made with a history longer than the window
C3_Witness ==
    \E t \in Tasks :
        /\ InChat(t)
        /\ Len(heap[tasks[t].history]) > HistoryWindow
        /\ Len(tasks[t].api_messages) = HistoryWindow
        /\ tasks[t].api_messages[1].role # "system"

\* ------------------------------------------------------------ C7
\* C7: a query on a stored conversation is never held back by another query
\* pending on it, and every append goes to the end of the shared list as it then
\* is: the user turns not yet answered are the pending chat calls plus the failed
\* queries, which can be more than one.
C7_NoMutualExclusion ==
    /\ \A t \in Tasks, id \in DOMAIN conversations :
        tasks[t].pc \in {"idle", "done", "error"} /\ started < MaxRequests =>
            \A owner \in Owners, name \in Names, prompt \in Prompts :
                ENABLED QueryOn(t, MaxRequests, owner, name, prompt, Str(id))
    /\ \A a \in 1..Len(heap) :
        CountRole(heap[a], "user") - CountRole(heap[a], "assistant") =
            Cardinality({t \in Tasks : InChat(t) /\ tasks[t].history = a}) + errored[a]

\* two queries pending on one conversation, none failed: two user turns in a row
C7_Witness ==
    \E a \in 1..Len(heap) : \E i \in 1..(Len(heap[a]) - 1) :
        /\ heap[a][i].role = "user"
        /\ heap[a][i + 1].role = "user"
        /\ errored[a] = 0
        /\ faults = 0
        /\ Cardinality({t \in Tasks : InChat(t) /\ tasks[t].history = a}) = 2

\* ------------------------------------------------------------ C8
\* C8: the counter never decreases; a query that does not name a stored
\* conversation takes the next counter value as its id, an id no conversation and
\* no other task has; stored ids are among those handed out; a step never
\* removes a store entry or makes an id name another list.
C8_FreshIds ==
    /\ [](/\ DOMAIN conversations \subseteq Assigned
          /\ \A t \in Tasks : tasks[t].pc = "fetch" =>
                /\ tasks[t].conv_id \in Assigned
                /\ tasks[t].conv_id \notin DOMAIN conversations
                /\ \A u \in Tasks \ {t} : tasks[u].pc = "fetch" =>
                        tasks[u].conv_id # tasks[t].conv_id
          /\ \A id1, id2 \in DOMAIN conversations :
                conversations[id1] = conversations[id2] => id1 = id2)
    /\ [][/\ conv_counter' >= conv_counter
          /\ \A id \in DOMAIN conversations :
                id \in DOMAIN conversations' /\ conversations'[id] = conversations[id]
          /\ \A t \in Tasks : tasks[t].pc # "fetch" /\ tasks'[t].pc = "fetch" =>
                /\ conv_counter' = conv_counter + 1
                /\ tasks'[t].conv_id = ConvId(conv_counter')
                /\ tasks'[t].conv_id \notin Assigned]_vars

\* two queries created their conversations concurrently, the second id stored first
C8_Witness ==
    /\ Cardinality(DOMAIN conversations) = 2
    /\ conversations[ConvId(1)] = 2
    /\ conversations[ConvId(2)] = 1

\* ------------------------------------------------------------ helpers of the claims on calls
Ended(c) == calls[c].pc \in {"returned", "raised"}
\* the tool result of a list call was decoded into spaces_result (line 109 or 111 ran)
\* and the loop over it ran to its end
ListingCaptured ==
    /\ IsLst(ParseMcpResult(upstream.listing)) \/ IsObj(ParseMcpResult(upstream.listing))
    /\ ProcessListing(upstream.listing).exc = "none"
\* the owner list_copilot_spaces derives for a record
DerivedOwner(r) ==
    LET login == DictGet(r, "owner_login", Null)
        first == IF Truthy(login) THEN login ELSE DictGet(r, "owner", Str(<< >>))
    IN  IF IsObj(first) THEN DictGet(first, "login", Str(<< >>)) ELSE first
\* the display names the upstream reports for the space
DisplayNames ==
    {Strip(ResourceText(it.obj["resource"])) :
        it \in {x \in {ContentOrEmpty(upstream.items)[i] :
                        i \in 1..Len(ContentOrEmpty(upstream.items))} :
                    /\ "resource" \in DOMAIN x.obj
                    /\ Contains(ResourceUri(x.obj["resource"]), "/contents/name")}}

\* ------------------------------------------------------------ C4
\* C4: when the tool result of list_copilot_spaces was received and decoded into
\* the result list and leaving a with block then raises, the call returns that list;
\* it raises only if no data was captured before the error.
C4_ListKeptAfterLateError ==
    \A c \in Callers :
        calls[c].op = "list" /\ Ended(c) =>
            /\ calls[c].received /\ ListingCaptured /\ calls[c].exc \in LateFailures =>
                /\ calls[c].pc = "returned"
                /\ calls[c].result = ProcessListing(upstream.listing).result
            /\ calls[c].pc = "raised" => ~(calls[c].received /\ ListingCaptured)

\* ------------------------------------------------------------ C5
\* C5: once get_copilot_space has assembled the record, the call returns it whatever
\* is raised afterwards, also a record without files; when it fails before that, it
\* raises and holds no record.
C5_RecordKeptAfterLateError ==
    \A c \in Callers :
        calls[c].op = "get" /\ Ended(c) =>
            /\ calls[c].received =>
                /\ calls[c].pc = "returned"
                /\ DOMAIN calls[c].result.obj = {"name", "owner", "space_ref", "files", "context"}
            /\ ~calls[c].received /\ calls[c].exc # "none" =>
                /\ calls[c].pc = "raised"
                /\ calls[c].result = Obj(<< >>)
            /\ calls[c].pc = "raised" => calls[c].exc \notin LateFailures \/ ~calls[c].received

\* a record without files returned although leaving a with block raised
C5_Witness ==
    \E c \in Callers :
        /\ calls[c].op = "get"
        /\ calls[c].pc = "returned"
        /\ calls[c].exc \in LateFailures
        /\ calls[c].result.obj["files"] = Lst(<< >>)

\* ------------------------------------------------------------ C6
\* C6: a call works only with the transport session and the MCP session it opened
\* itself, which are open while it initializes and calls the tool; when the call has
\* returned or raised, on whatever path, both are closed or were never opened; no
\* session is open without a call in progress that opened it, and none was used by
\* another call.
C6_ScopedSessions ==
    /\ \A c \in Callers :
        /\ Ended(c) =>
            /\ scopes[calls[c].no].transport \in {"unopened", "closed"}
            /\ scopes[calls[c].no].session \in {"unopened", "closed"}
        /\ calls[c].pc \in {"session_open", "initialized"} =>
            /\ calls[c].session = calls[c].no
            /\ calls[c].transport = calls[c].no
            /\ scopes[calls[c].no].transport = "open"
            /\ scopes[calls[c].no].session = "open"
    /\ \A i \in 1..Len(scopes) :
        /\ scopes[i].users \subseteq {i}
        /\ scopes[i].session = "open" => scopes[i].transport = "open"
        /\ scopes[i].transport = "open" =>
            \E c \in Callers : calls[c].no = i /\ ~Ended(c)

\* an earlier call that met a failure after its session was opened, both of its
\* resources closed, and a later call with a session of its own
C6_Witness ==
    \E c \in Callers :
        /\ calls[c].pc = "session_open"
        /\ calls[c].no = 2
        /\ scopes[1].session = "closed"
        /\ scopes[1].transport = "closed"
        /\ scopes[1].users = {1}
        /\ faults = 1

\* ------------------------------------------------------------ C9
\* C9 as stated: every record returned by get_copilot_space and every record
\* normalised by list_copilot_spaces has space_ref = owner + "/" + name.
C9_SpaceRefIsOwnerSlashName ==
    \A c \in Callers :
        calls[c].pc = "returned" /\ calls[c].received =>
            IF calls[c].op = "get"
            THEN calls[c].result.obj["space_ref"] =
                    Str(calls[c].result.obj["owner"].str \o <<"/">>
                        \o calls[c].result.obj["name"].str)
            ELSE IsLst(calls[c].result) =>
                    \A i \in 1..Len(calls[c].result.list) :
                        LET r == calls[c].result.list[i] IN
                        IsObj(r) =>
                            r.obj["space_ref"] =
                                Str(Format(DerivedOwner(r)) \o <<"/">>
                                    \o Format(DictGet(r, "name", Str(<< >>))))

\* C9 as amended: get_copilot_space returns the reference it was given as
\* space_ref, with owner the part before its first "/" (empty for a bare name); it
\* is owner + "/" + name when the reference has a "/" and no display name replaced
\* the name. list_copilot_spaces sets space_ref to owner + "/" + name when the
\* owner it derives is non-empty and to name alone otherwise.
C9_SpaceRefAsBuilt ==
    \A c \in Callers :
        calls[c].pc = "returned" /\ calls[c].received =>
            IF calls[c].op = "get"
            THEN LET rec == calls[c].result.obj
                     ref == calls[c].space_ref
                 IN  /\ rec["space_ref"] = Str(ref)
                     /\ ~Contains(rec["owner"].str, "/")
                     /\ Contains(ref, "/") =>
                            \E name \in {SubSeq(ref, i, Len(ref)) : i \in 1..(Len(ref) + 1)} :
                                /\ ref = rec["owner"].str \o <<"/">> \o name
                                /\ rec["name"].str \in {name} \cup DisplayNames
                                /\ rec["name"].str = name =>
                                     rec["space_ref"] =
                                        Str(rec["owner"].str \o <<"/">> \o rec["name"].str)
                     /\ ~Contains(ref, "/") =>
                            /\ rec["owner"].str = << >>
                            /\ rec["name"].str \in {ref} \cup DisplayNames
                     /\ rec["name"].str # << >> \/ ref = << >>
            ELSE IsLst(calls[c].result) =>
                    \A i \in 1..Len(calls[c].result.list) :
                        LET r == calls[c].result.list[i] IN
                        IsObj(r) =>
                            r.obj["space_ref"] =
                                IF Truthy(DerivedOwner(r))
                                THEN Str(DerivedOwner(r).str \o <<"/">>
                                         \o Format(DictGet(r, "name", Str(<< >>))))
                                ELSE DictGet(r, "name", Str(<< >>))

\* a bare-name reference whose name the upstream's display name replaced
C9_Witness ==
    \E c \in Callers :
        /\ calls[c].op = "get"
        /\ calls[c].pc = "returned"
        /\ ~Contains(calls[c].space_ref, "/")
        /\ calls[c].result.obj["owner"] = Str(<< >>)
        /\ calls[c].result.obj["name"] = Str(<<"My Space">>)
        /\ calls[c].result.obj["space_ref"] = Str(<<"docs">>)

\* ------------------------------------------------------------ C10
\* what the extractor is said to return for a decoded response
AtOrAbsent(v, k) == IF IsObj(v) /\ k \in DOMAIN v.obj THEN Returned(v.obj[k]) ELSE Raised("absent")
ExpectedReply(response) ==
    LET r == response.obj IN
    IF "choices" \in DOMAIN r /\ IsLst(r["choices"]) /\ Len(r["choices"].list) > 0
    THEN LET message == AtOrAbsent(r["choices"].list[1], "message")
             content == IF message.kind = "return"
                        THEN AtOrAbsent(message.value, "content") ELSE message
         IN  IF content.kind = "return" THEN content.value ELSE Str(<< >>)
    ELSE IF "message" \in DOMAIN r
    THEN IF AtOrAbsent(r["message"], "content").kind = "return"
         THEN AtOrAbsent(r["message"], "content").value
         ELSE Str(JsonDumps(response))
    ELSE Str(JsonDumps(response))

\* C10: the extractor never raises and returns a string: choices[0].message.content
\* (or "") with a non-empty choices sequence, else message.content (or the JSON
\* text of the response), else the JSON text of the response.
C10_ExtractorTotal ==
    exOut # Null =>
        /\ exOut.kind = "return"
        /\ IsStr(exOut.value)
        /\ exOut.value = ExpectedReply(exIn)

\* ------------------------------------------------------------ C11
\* an item with a resource whose URI holds "/files/" and whose text, trimmed, is not empty
IsFileItem(item) ==
    LET resource == DictGet(item, "resource", Null) IN
    /\ ~IsNull(resource)
    /\ Contains(ResourceUri(resource), "/files/")
    /\ Strip(ResourceText(resource)) # << >>

\* the file entries of those items, in the order of the items
FilesOf(items) ==
    LET kept == SelectSeq(items, IsFileItem) IN
    [i \in 1..Len(kept) |->
        Obj([path |-> Str(Split1(ResourceUri(kept[i].obj["resource"]), "/files/")[2]),
             content |-> Str(ResourceText(kept[i].obj["resource"]))])]

\* C11: the record get_copilot_space returns holds as files, in upstream order,
\* exactly the resource items whose URI contains "/files/" and whose trimmed text is
\* not empty, each with the URI's suffix after "/files/" as path; its context is the
\* header-and-content blocks of those files joined by the separator, and the empty
\* string when there is none.
C11_FilesAreTheFileItems ==
    \A c \in Callers :
        calls[c].op = "get" /\ calls[c].pc = "returned" =>
            LET files == FilesOf(ContentOrEmpty(upstream.items)) IN
            /\ calls[c].result.obj["files"] = Lst(files)
            /\ calls[c].result.obj["context"] = Str(Join(<<"\n\n---\n\n">>, ContextParts(files)))
            /\ files = << >> => calls[c].result.obj["context"] = Str(<< >>)

\* ------------------------------------------------------------ C12
\* the user turns of h that no assistant turn follows directly
Unanswered(h) ==
    {i \in 1..Len(h) : h[i].role = "user" /\ (i = Len(h) \/ h[i + 1].role # "assistant")}
\* the queries on the list at address a that have ended in an error, before this step
ErroredBefore(a) == IF a <= Len(errored) THEN errored[a] ELSE 0

\* C12: with one client sending its queries in sequence, a step in which a query
\* fails leaves the task with an error and no reply, takes nothing back from the
\* store (no turn, no entry, no counter value), and leaves the query's user turn as
\* the last turn of its conversation, which is in the store under an id handed out;
\* ever after, each failed query's user turn is in its history with no assistant
\* turn following it, also in a conversation whose every query failed.
C12_NoRollbackOnFailure ==
    /\ [](\A a \in 1..Len(heap) :
            /\ \E id \in DOMAIN conversations : id \in Assigned /\ conversations[id] = a
            /\ Cardinality(Unanswered(heap[a])) =
                   errored[a] + (IF InChat(1) /\ tasks[1].history = a THEN 1 ELSE 0))
    /\ [][\A a \in 1..Len(errored') :
            errored'[a] > ErroredBefore(a) =>
                /\ tasks'[1].pc = "error"
                /\ tasks'[1].reply = Null
                /\ \E id \in DOMAIN conversations' : id \in Assigned' /\ conversations'[id] = a
                /\ heap'[a][Len(heap'[a])].role = "user"
                /\ Len(heap') >= Len(heap)
                /\ \A b \in 1..Len(heap) : IsPrefix(heap[b], heap'[b])
                /\ \A id \in DOMAIN conversations :
                        id \in DOMAIN conversations' /\ conversations'[id] = conversations[id]
                /\ conv_counter' >= conv_counter
                /\ tasks[1].pc = "chat" =>
                        /\ heap' = heap
                        /\ conversations' = conversations
                        /\ conv_counter' = conv_counter]_vars

\* the credential is set and the first query's chat call failed: the conversation it
\* created is stored under conv-1 as (system, user), and the next conversation,
\* created by a query that succeeded, is conv-2
C12_Witness ==
    /\ token
    /\ faults = 1
    /\ tasks[1].pc = "done"
    /\ tasks[1].reply.obj["conversationId"] = Str(ConvId(2))
    /\ ConvId(1) \in DOMAIN conversations
    /\ [i \in 1..Len(History(ConvId(1))) |-> History(ConvId(1))[i].role] = <<"system", "user">>
    /\ errored[conversations[ConvId(1)]] = 1

====
